---- MODULE Spec2Model ----
(***************************************************************************)
(* Blackbox-Mini-Src-Labeller: the Finder (file_finder.py, and its copy in *)
(* labeler.py), the Labeler session (labeler.py main) and the command-line *)
(* entry points of file_finder.py, labeler.py and labeller.py.             *)
(*                                                                         *)
(* Python strings are sequences of one-character strings, compared by code *)
(* point as Python compares them.                                          *)
(***************************************************************************)
EXTENDS Integers, Sequences, FiniteSets, TLC

(***************************************************************************)
(* Bounds of the model.                                                    *)
(***************************************************************************)
\* largest line count of a file of the scanned tree
MaxLines == 2
\* largest desired_size
MaxSize == 1
\* largest line_threshold
MaxThreshold == 1
\* largest number of pool workers
MaxWorkers == 2

\* largest number of labels the operator declares
MaxLabels == 2
\* largest number of files get_all_files finds for a session
MaxFiles == 2
\* largest sample_size
MaxSample == 3
\* largest number of rejected inputs in a row at one prompt
MaxRetries == 1
\* largest number of command-line arguments
MaxArgs == 5
\* largest number of rows of a table that exists before the run
MaxRows == 1

(***************************************************************************)
(* Strings.                                                                *)
(***************************************************************************)
\* ord(c) of the characters the model uses
Ord(c) ==
    CASE c = "+" -> 43
      [] c = "-" -> 45
      [] c = "." -> 46
      [] c = "/" -> 47
      [] c = "0" -> 48
      [] c = "1" -> 49
      [] c = "2" -> 50
      [] c = "3" -> 51
      [] c = "4" -> 52
      [] c = "a" -> 97
      [] c = "b" -> 98
      [] c = "c" -> 99
      [] c = "d" -> 100
      [] c = "e" -> 101
      [] c = "j" -> 106
      [] c = "n" -> 110
      [] c = "o" -> 111
      [] c = "r" -> 114
      [] c = "s" -> 115
      [] c = "t" -> 116
      [] c = "v" -> 118
      [] c = "x" -> 120

\* a < b for two Python strings (list.sort's order on str)
StrLess(a, b) ==
    \/ /\ Len(a) < Len(b)
       /\ SubSeq(b, 1, Len(a)) = a
    \/ \E i \in 1..Len(a) :
          /\ i <= Len(b)
          /\ SubSeq(a, 1, i - 1) = SubSeq(b, 1, i - 1)
          /\ Ord(a[i]) < Ord(b[i])

\* s.endswith(suffix)
EndsWith(s, suffix) ==
    /\ Len(suffix) <= Len(s)
    /\ SubSeq(s, Len(s) - Len(suffix) + 1, Len(s)) = suffix

\* s.startswith(prefix)
StartsWith(s, prefix) ==
    /\ Len(prefix) <= Len(s)
    /\ SubSeq(s, 1, Len(prefix)) = prefix

\* s.replace(old, new): every non-overlapping occurrence, left to right
RECURSIVE Replace(_, _, _)
Replace(s, old, new) ==
    IF s = <<>> THEN <<>>
    ELSE IF StartsWith(s, old)
         THEN new \o Replace(SubSeq(s, Len(old) + 1, Len(s)), old, new)
         ELSE <<Head(s)>> \o Replace(Tail(s), old, new)

\* the decimal digits the model types
Digits == {"0", "1", "2", "3", "4"}

\* s.isdigit(): not empty, and every character a digit
IsDigit(s) == Len(s) > 0 /\ \A i \in 1..Len(s) : s[i] \in Digits

\* int(s) of a string of digits
RECURSIVE ToInt(_)
ToInt(s) ==
    IF s = <<>> THEN 0
    ELSE 10 * ToInt(SubSeq(s, 1, Len(s) - 1)) + (Ord(s[Len(s)]) - Ord("0"))

\* str(n) for one digit
DigitStr(n) == <<CHOOSE c \in Digits : Ord(c) - Ord("0") = n>>

JAVA == <<".", "j", "a", "v", "a">>
CSV == <<".", "c", "s", "v">>
JSON == <<".", "j", "s", "o", "n">>

\* Python's None; filter(None, ...) drops it together with the empty string
None == <<>>

\* os.path.join(path, filename) for a relative filename
PathJoin(path, filename) == path \o <<"/">> \o filename

\* list.sort() of a list of strings
ListSort(l) == SortSeq(l, StrLess)

\* the one-to-one orders of a finite set
Perms(S) ==
    {p \in [1..Cardinality(S) -> S] : \A i, j \in 1..Cardinality(S) : i # j => p[i] # p[j]}

(***************************************************************************)
(* State.                                                                  *)
(***************************************************************************)
VARIABLES
    \* ---- the Finder (get_all_files)
    fs,             \* the scanned tree: each of its files -> its line count
    desired_size,   \* get_all_files' desired_size
    line_threshold, \* get_all_files' line_threshold
    workers,        \* the size of the pool
    fpc,            \* where get_all_files is: "start", "walk", "starmap", "map", "done",
                    \* or "ValueError" when the pool could not be made
    visited,        \* the directories os.walk has yielded
    tasks,          \* the argument list handed to pool.starmap / pool.map
    task_state,     \* per task: "queued" (not finished yet) or "done"
    temp_data,      \* per task: its result, in argument order
    src_files,      \* the list of per-directory result lists, then the flat sorted list
    result,         \* what get_all_files returned
    prev_result,    \* what the previous scan of the same tree returned
    prev_workers,   \* the pool size of the previous scan, 0 before any
    \* ---- the Labeler session (labeler.py main)
    lpc,            \* where main is: "not_started", "main", "get_labels", "enter_label",
                    \* "get_length", "assign_label", "saved", and the ways it ends early
    dir_is_dir,     \* os.path.isdir(dir_to_label)
    output_file,    \* main's output_file
    sample_size,    \* main's sample_size
    meta_state,     \* per file of the tree: its metadata file is "ok" or "missing"
    n_labels,       \* int(number_of_labels) in get_labels
    labels,         \* the label list
    files,          \* what get_all_files returned to main
    random_files,   \* the sample
    idx,            \* the position in random_files of the file being shown
    output_data,    \* the rows of the DataFrame
    csv,            \* the file at output_file: whether it exists, and its rows
    depth,          \* the recursion depth of the prompt that is waiting for input
    exit_at,        \* the sample position at which "exit" was first accepted, 0 if never
    \* ---- the command line (the __main__ blocks)
    entry,          \* the script that is run: "file_finder", "labeler" or "labeller"
    argv,           \* sys.argv[1:]
    cpc,            \* where the __main__ block is: "idle", "start", "parsed", "done"
    opts,           \* the arguments that start with "-"
    args,           \* the other arguments
    log_level,      \* the level of the root logger
    critical,       \* the number of messages logged at CRITICAL
    outcome         \* how the block ended: "usage", "not_int", "main", "ValueError"

fvars == <<fs, desired_size, line_threshold, workers, fpc, visited, tasks,
           task_state, temp_data, src_files, result, prev_result, prev_workers>>

lvars == <<lpc, dir_is_dir, output_file, sample_size, meta_state, n_labels, labels,
           files, random_files, idx, output_data, csv, depth, exit_at>>

cvars == <<entry, argv, cpc, opts, args, log_level, critical, outcome>>

vars == <<fvars, lvars, cvars>>

(***************************************************************************)
(* The Finder: file_finder.py (labeler.py holds the same code).            *)
(***************************************************************************)
DirRoot == <<"r">>
DirC == <<"r", "/", "c">>
DirD == <<"r", "/", "d", ".", "j", "a", "v", "a">>

\* the directories of the scanned tree; os.walk yields the root first
Dirs == {DirRoot, DirC, DirD}

\* the files of the scanned tree
Candidates ==
    { [dir |-> DirRoot, name |-> <<"a", ".", "j", "a", "v", "a">>],
      [dir |-> DirRoot, name |-> <<"a", ".", "j", "b", ".", "j", "a", "v", "a">>],
      [dir |-> DirRoot, name |-> <<"b", ".", "t", "x", "t">>],
      [dir |-> DirC,    name |-> <<"a", ".", "j", "a", "v", "a">>],
      [dir |-> DirD,    name |-> <<"e", ".", "j", "a", "v", "a">>] }

\* the names os.walk lists as files of directory path
FilesOf(path) == {c.name : c \in {x \in Candidates : x.dir = path}}

\* process_src with a strict comparison
ProcessSrcStrict(path, filename, size, threshold) ==
    LET file_path == PathJoin(path, filename)
        file_length == fs[[dir |-> path, name |-> filename]]
    IN  IF size - threshold < file_length /\ file_length < size + threshold
        THEN file_path
        ELSE None

\* process_src: the path if the line count is within the threshold, else None
ProcessSrc(path, filename, size, threshold) ==
    LET file_path == PathJoin(path, filename)
        file_length == fs[[dir |-> path, name |-> filename]]
    IN  IF size - threshold <= file_length /\ file_length <= size + threshold
        THEN file_path
        ELSE None

\* process_meta: .java replaced by .json
ProcessMeta(src_file) == Replace(src_file, JAVA, JSON)

\* [s for src in src_files for s in src]
RECURSIVE Flatten(_)
Flatten(ll) == IF ll = <<>> THEN <<>> ELSE Head(ll) \o Flatten(Tail(ll))

\* list(filter(None, l))
FilterNone(l) == SelectSeq(l, LAMBDA s : s # None)

\* the flat list left as the walk produced it
CollectUnsorted(ll) == FilterNone(Flatten(ll))

\* the flat, filtered, sorted list of accepted source paths
CollectSorted(ll) == ListSort(FilterNone(Flatten(ll)))

\* list(zip(a, b))
Zip(a, b) ==
    LET n == IF Len(a) < Len(b) THEN Len(a) ELSE Len(b)
    IN  [i \in 1..n |-> <<a[i], b[i]>>]

\* the argument list of pool.starmap for one directory, its files as listed
StarmapArgs(path, listing) ==
    LET java == SelectSeq(listing, LAMBDA f : EndsWith(f, JAVA))
    IN  [i \in 1..Len(java) |-> <<path, java[i], desired_size, line_threshold>>]

\* no scan is running
FinderIdle ==
    /\ fs = [c \in Candidates |-> 0]
    /\ desired_size = 1
    /\ line_threshold = 0
    /\ workers = 1
    /\ fpc = "idle"
    /\ visited = {}
    /\ tasks = <<>>
    /\ task_state = <<>>
    /\ temp_data = <<>>
    /\ src_files = <<>>
    /\ result = <<>>
    /\ prev_result = <<>>
    /\ prev_workers = 0

\* the file at output_file does not exist
NoFile == [exists |-> FALSE, rows |-> <<>>]

\* main has not been called
LabelerIdle ==
    /\ lpc = "not_started"
    /\ dir_is_dir = FALSE
    /\ output_file = <<>>
    /\ sample_size = 0
    /\ meta_state = <<>>
    /\ n_labels = 0
    /\ labels = <<>>
    /\ files = <<>>
    /\ random_files = <<>>
    /\ idx = 0
    /\ output_data = <<>>
    /\ csv = NoFile
    /\ depth = 0
    /\ exit_at = 0

\* no script has been started from the command line
CliIdle ==
    /\ entry = "none"
    /\ argv = <<>>
    /\ cpc = "idle"
    /\ opts = <<>>
    /\ args = <<>>
    /\ log_level = "ERROR"
    /\ critical = 0
    /\ outcome = "none"

FinderInit ==
    /\ fs \in [Candidates -> 0..MaxLines]
    /\ desired_size \in 1..MaxSize
    /\ line_threshold \in 0..MaxThreshold
    /\ workers \in 0..MaxWorkers
    /\ fpc = "start"
    /\ visited = {}
    /\ tasks = <<>>
    /\ task_state = <<>>
    /\ temp_data = <<>>
    /\ src_files = <<>>
    /\ result = <<>>
    /\ prev_result = <<>>
    /\ prev_workers = 0
    /\ LabelerIdle
    /\ CliIdle

\* mp.Pool(mp.cpu_count() // MULTIPROCESS_DIVISOR): a pool of no worker is
\* refused with ValueError
CreatePool ==
    /\ fpc = "start"
    /\ fpc' = IF workers < 1 THEN "ValueError" ELSE "walk"
    /\ src_files' = <<>>
    /\ UNCHANGED <<fs, desired_size, line_threshold, workers, visited, tasks, task_state,
                   temp_data, result, prev_result, prev_workers>>
    /\ UNCHANGED <<lvars, cvars>>

\* one iteration of "for path, _, files in os.walk(dir_to_label)": the
\* directory is listed in some order and its .java files go to pool.starmap
WalkDir(path, listing) ==
    /\ fpc = "walk"
    /\ path \notin visited
    /\ path = DirRoot \/ DirRoot \in visited
    /\ visited' = visited \cup {path}
    /\ tasks' = StarmapArgs(path, listing)
    /\ task_state' = [i \in 1..Len(tasks') |-> "queued"]
    /\ temp_data' = [i \in 1..Len(tasks') |-> None]
    /\ fpc' = "starmap"
    /\ UNCHANGED <<fs, desired_size, line_threshold, workers, src_files, result,
                   prev_result, prev_workers>>
    /\ UNCHANGED <<lvars, cvars>>

\* task i is with a worker: the pool hands the tasks out in argument order
\* to its workers, so the first `workers` unfinished tasks are the running ones
Running(i) ==
    /\ i \in 1..Len(tasks)
    /\ task_state[i] = "queued"
    /\ Cardinality({j \in 1..(i - 1) : task_state[j] = "queued"}) < workers

\* a worker finishes process_src; the result lands at the task's own index
SrcTaskFinish(i) ==
    /\ fpc = "starmap"
    /\ Running(i)
    /\ task_state' = [task_state EXCEPT ![i] = "done"]
    /\ temp_data' = [temp_data EXCEPT
                        ![i] = ProcessSrc(tasks[i][1], tasks[i][2], tasks[i][3], tasks[i][4])]
    /\ UNCHANGED <<fs, desired_size, line_threshold, workers, fpc, visited, tasks,
                   src_files, result, prev_result, prev_workers>>
    /\ UNCHANGED <<lvars, cvars>>

\* pool.starmap returns: src_files.append(temp_data)
StarmapReturn ==
    /\ fpc = "starmap"
    /\ \A i \in 1..Len(tasks) : task_state[i] = "done"
    /\ src_files' = Append(src_files, temp_data)
    /\ tasks' = <<>>
    /\ task_state' = <<>>
    /\ temp_data' = <<>>
    /\ fpc' = "walk"
    /\ UNCHANGED <<fs, desired_size, line_threshold, workers, visited, result,
                   prev_result, prev_workers>>
    /\ UNCHANGED <<lvars, cvars>>

\* the walk is over: flatten, filter, sort, and hand the list to pool.map
CollectSrc ==
    /\ fpc = "walk"
    /\ visited = Dirs
    /\ src_files' = CollectSorted(src_files)
    /\ tasks' = src_files'
    /\ task_state' = [i \in 1..Len(tasks') |-> "queued"]
    /\ temp_data' = [i \in 1..Len(tasks') |-> None]
    /\ fpc' = "map"
    /\ UNCHANGED <<fs, desired_size, line_threshold, workers, visited, result,
                   prev_result, prev_workers>>
    /\ UNCHANGED <<lvars, cvars>>

\* a worker finishes process_meta
MetaTaskFinish(i) ==
    /\ fpc = "map"
    /\ Running(i)
    /\ task_state' = [task_state EXCEPT ![i] = "done"]
    /\ temp_data' = [temp_data EXCEPT ![i] = ProcessMeta(tasks[i])]
    /\ UNCHANGED <<fs, desired_size, line_threshold, workers, fpc, visited, tasks,
                   src_files, result, prev_result, prev_workers>>
    /\ UNCHANGED <<lvars, cvars>>

\* pool.map returns: meta_files.sort(), pool.close(), return list(zip(...))
MapReturn ==
    /\ fpc = "map"
    /\ \A i \in 1..Len(tasks) : task_state[i] = "done"
    /\ result' = Zip(src_files, ListSort(temp_data))
    /\ tasks' = <<>>
    /\ task_state' = <<>>
    /\ temp_data' = <<>>
    /\ fpc' = "done"
    /\ UNCHANGED <<fs, desired_size, line_threshold, workers, visited, src_files,
                   prev_result, prev_workers>>
    /\ UNCHANGED <<lvars, cvars>>

\* the same tree is scanned again by a pool of another size
Rescan(w) ==
    /\ fpc = "done"
    /\ w # workers
    /\ prev_result' = result
    /\ prev_workers' = workers
    /\ workers' = w
    /\ fpc' = "start"
    /\ visited' = {}
    /\ src_files' = <<>>
    /\ result' = <<>>
    /\ UNCHANGED <<fs, desired_size, line_threshold, tasks, task_state, temp_data>>
    /\ UNCHANGED <<lvars, cvars>>

FinderNext ==
    \/ CreatePool
    \/ \E path \in Dirs : \E listing \in Perms(FilesOf(path)) : WalkDir(path, listing)
    \/ \E i \in 1..Cardinality(Candidates) : SrcTaskFinish(i)
    \/ StarmapReturn
    \/ CollectSrc
    \/ \E i \in 1..Cardinality(Candidates) : MetaTaskFinish(i)
    \/ MapReturn
    \/ \E w \in 0..MaxWorkers : Rescan(w)

SpecFinder == FinderInit /\ [][FinderNext]_vars

(***************************************************************************)
(* Claims about the Finder, checked under SpecFinder.                      *)
(***************************************************************************)
\* the source paths of a list of (source, metadata) pairs
SrcPaths(pairs) == {pairs[i][1] : i \in 1..Len(pairs)}

\* target - tolerance <= n <= target + tolerance
InRange(n) == desired_size - line_threshold <= n /\ n <= desired_size + line_threshold

\* C1: a file of the scanned tree is in the list get_all_files returns if and
\* only if its name ends in .java and its line count lies in
\* [target - tolerance, target + tolerance], both ends included; and the list
\* holds no path that is not a file of the tree.
C1_IncludedIffJavaInRange ==
    fpc = "done" =>
        /\ \A c \in Candidates :
              PathJoin(c.dir, c.name) \in SrcPaths(result)
                  <=> (EndsWith(c.name, JAVA) /\ InRange(fs[c]))
        /\ SrcPaths(result) \subseteq {PathJoin(c.dir, c.name) : c \in Candidates}

\* a scan that kept a file on each end of the range, dropped a .java file one
\* line past either end, and dropped a file of another extension in the range
C1_Witness ==
    /\ fpc = "done"
    /\ \E c \in Candidates :
          /\ fs[c] = desired_size - line_threshold
          /\ PathJoin(c.dir, c.name) \in SrcPaths(result)
    /\ \E c \in Candidates :
          /\ fs[c] = desired_size + line_threshold
          /\ PathJoin(c.dir, c.name) \in SrcPaths(result)
    /\ \E c \in Candidates :
          /\ EndsWith(c.name, JAVA)
          /\ fs[c] = desired_size + line_threshold + 1
          /\ PathJoin(c.dir, c.name) \notin SrcPaths(result)
    /\ \E c \in Candidates :
          /\ EndsWith(c.name, JAVA)
          /\ fs[c] = desired_size - line_threshold - 1
          /\ PathJoin(c.dir, c.name) \notin SrcPaths(result)
    /\ \E c \in Candidates :
          /\ ~EndsWith(c.name, JAVA)
          /\ InRange(fs[c])
          /\ PathJoin(c.dir, c.name) \notin SrcPaths(result)

\* C2: the list get_all_files returns is sorted by source path whatever the
\* order of the walk and of the workers' completions, and a second scan of the
\* same tree by a pool of another size returns the identical ordered list.
C2_SortedWhateverTheSchedule ==
    fpc = "done" =>
        /\ \A i, j \in 1..Len(result) : i < j => StrLess(result[i][1], result[j][1])
        /\ prev_workers # 0 => result = prev_result

\* a second scan, by a pool of another size, that returned three files or more
C2_Witness ==
    /\ fpc = "done"
    /\ prev_workers # 0
    /\ prev_workers # workers
    /\ Len(result) >= 3

\* the source path with its trailing .java replaced by .json
OwnMetadata(source_path) ==
    SubSeq(source_path, 1, Len(source_path) - Len(JAVA)) \o JSON

\* C3: in every pair of the returned list the metadata path is the source
\* path with its trailing .java replaced by .json: each source file is paired
\* with its own metadata file.
C3_PairedWithOwnMetadata ==
    fpc = "done" =>
        \A i \in 1..Len(result) : result[i][2] = OwnMetadata(result[i][1])

(***************************************************************************)
(* The Labeler session: labeler.py main, get_labels, assign_label and      *)
(* get_desired_file_length.  A step runs from one input() to the next.     *)
(***************************************************************************)
\* what the operator may type at a label prompt
LabelInputs == {"readable", "exit", "maybe"}

\* what the operator may type when asked for the number of labels
CountInputs == {<<"a">>, <<>>, <<"0", "2">>} \cup {DigitStr(n) : n \in 0..MaxLabels}

\* what the operator may type when asked for the desired file length
LengthInputs == {<<"a">>, <<"2">>}

\* the file lists get_all_files may return to main: sorted, without duplicates;
\* a file is named by its rank among the files of the tree
FileLists == {[i \in 1..n |-> i] : n \in 0..MaxFiles}

\* the elements of a list
Range(l) == {l[i] : i \in 1..Len(l)}

\* every input is taken as a label
AcceptAnyLabel(label, label_list) == TRUE

\* label in labels
IsValidLabel(label, label_list) == label \in Range(label_list)

\* the sample size after "if sample_size >= len(files): sample_size = len(files)"
ClampSampleSize(size, file_list) ==
    IF size >= Len(file_list) THEN Len(file_list) ELSE size

\* random.choices(files, k=sample_size): k independent draws
Choices(file_list, k) == [1..k -> Range(file_list)]

\* the row is dropped when its label is "exit"
ConcatRowUnlessExit(data, file, label) ==
    IF label = "exit" THEN data ELSE Append(data, [file_name |-> file, label |-> label])

\* pd.concat([output_data, pd.DataFrame([{...}])], ignore_index=True)
ConcatRow(data, file, label) == Append(data, [file_name |-> file, label |-> label])

\* what happens from the top of the loop at position i of sample with the
\* rows data, up to the next input(): the table is saved when the sample is
\* exhausted, open() raises when the metadata file is missing, and
\* assign_label prompts otherwise
LoopFrom(i, sample, data) ==
    IF i > Len(sample)
    THEN /\ lpc' = "saved"
         /\ csv' = [exists |-> TRUE, rows |-> data]
    ELSE /\ lpc' = IF meta_state[sample[i]] = "ok" THEN "assign_label" ELSE "crashed"
         /\ csv' = csv

LabelerInit ==
    /\ lpc = "main"
    /\ dir_is_dir \in BOOLEAN
    /\ output_file \in {<<"o">> \o CSV, <<"o", ".", "t", "x", "t">>}
    /\ sample_size \in 0..MaxSample
    /\ meta_state \in [1..MaxFiles -> {"ok", "missing"}]
    /\ n_labels = 0
    /\ labels = <<>>
    /\ files = <<>>
    /\ random_files = <<>>
    /\ idx = 0
    /\ output_data = <<>>
    /\ csv = NoFile
    /\ depth = 0
    /\ exit_at = 0
    /\ FinderIdle
    /\ CliIdle

\* main's checks of its arguments, up to get_labels' first input()
MainChecks ==
    /\ lpc = "main"
    /\ lpc' = IF ~dir_is_dir THEN "invalid_dir"
              ELSE IF ~EndsWith(output_file, CSV) THEN "not_csv"
              ELSE "get_labels"
    /\ UNCHANGED <<dir_is_dir, output_file, sample_size, meta_state, n_labels, labels,
                   files, random_files, idx, output_data, csv, depth, exit_at>>
    /\ UNCHANGED <<fvars, cvars>>

\* get_labels: the number of labels is typed
GetLabelsCount(number_of_labels) ==
    /\ lpc = "get_labels"
    /\ IF ~IsDigit(number_of_labels)
       THEN /\ depth < MaxRetries
            /\ depth' = depth + 1
            /\ UNCHANGED <<lpc, n_labels>>
       ELSE /\ n_labels' = ToInt(number_of_labels)
            /\ lpc' = IF n_labels' = 0 THEN "get_length" ELSE "enter_label"
            /\ depth' = 0
    /\ UNCHANGED <<dir_is_dir, output_file, sample_size, meta_state, labels,
                   files, random_files, idx, output_data, csv, exit_at>>
    /\ UNCHANGED <<fvars, cvars>>

\* get_labels: one label is typed; the list is returned after the last one
EnterLabel(label) ==
    /\ lpc = "enter_label"
    /\ labels' = Append(labels, label)
    /\ lpc' = IF Len(labels') = n_labels THEN "get_length" ELSE "enter_label"
    /\ UNCHANGED <<dir_is_dir, output_file, sample_size, meta_state, n_labels,
                   files, random_files, idx, output_data, csv, depth, exit_at>>
    /\ UNCHANGED <<fvars, cvars>>

\* get_desired_file_length: the length is typed; then get_all_files returns
\* found, the sample is drawn, and the loop runs up to its first prompt
GetDesiredFileLength(length, found, sample) ==
    /\ lpc = "get_length"
    /\ IF ~IsDigit(length)
       THEN /\ depth < MaxRetries
            /\ depth' = depth + 1
            /\ UNCHANGED <<lpc, files, random_files, idx, output_data, csv>>
       ELSE /\ depth' = 0
            /\ files' = found
            /\ IF Len(found) = 0
               THEN /\ lpc' = "no_files"
                    /\ UNCHANGED <<random_files, idx, output_data, csv>>
               ELSE /\ sample \in Choices(found, ClampSampleSize(sample_size, found))
                    /\ random_files' = sample
                    /\ output_data' = <<>>
                    /\ idx' = 1
                    /\ LoopFrom(1, sample, <<>>)
    /\ UNCHANGED <<dir_is_dir, output_file, sample_size, meta_state, n_labels, labels,
                   exit_at>>
    /\ UNCHANGED <<fvars, cvars>>

\* assign_label: a label is typed; an accepted one makes the row, and the
\* loop goes on to the next prompt, to the save or to the failing open()
AssignLabel(label) ==
    /\ lpc = "assign_label"
    /\ IF ~IsValidLabel(label, labels)
       THEN /\ depth < MaxRetries
            /\ depth' = depth + 1
            /\ UNCHANGED <<lpc, idx, output_data, csv, exit_at>>
       ELSE /\ depth' = 0
            /\ output_data' = ConcatRow(output_data, random_files[idx], label)
            /\ idx' = idx + 1
            /\ exit_at' = IF label = "exit" /\ exit_at = 0 THEN idx ELSE exit_at
            /\ LoopFrom(idx + 1, random_files, output_data')
    /\ UNCHANGED <<dir_is_dir, output_file, sample_size, meta_state, n_labels, labels,
                   files, random_files>>
    /\ UNCHANGED <<fvars, cvars>>

LabelerNext ==
    \/ MainChecks
    \/ \E number_of_labels \in CountInputs : GetLabelsCount(number_of_labels)
    \/ \E label \in LabelInputs : EnterLabel(label)
    \/ \E length \in LengthInputs : \E found \in FileLists :
          \E sample \in UNION {Choices(found, k) : k \in 0..MaxSample} :
             GetDesiredFileLength(length, found, sample)
    \/ \E label \in LabelInputs : AssignLabel(label)

SpecLabeler == LabelerInit /\ [][LabelerNext]_vars

(***************************************************************************)
(* Claims about the Labeler session, checked under SpecLabeler.            *)
(***************************************************************************)
\* the sample has been drawn
Sampled == lpc \in {"assign_label", "saved", "crashed"}

\* C4: the sample never has more rows than the file list and never holds the
\* same file twice; when sample_size exceeds the length of the file list the
\* sample is the whole file list, without duplicates.
C4_SampleWithoutReplacement ==
    Sampled =>
        /\ Len(random_files) <= Len(files)
        /\ \A i, j \in 1..Len(random_files) : i # j => random_files[i] # random_files[j]
        /\ sample_size > Len(files) => Range(random_files) = Range(files)

\* C5: an input that is not in the label set never advances the loop: it
\* appends no row and leaves the current file as it is; the loop advances only
\* by appending a row for the current file with a label of the label set, so
\* every row of the table, in memory and saved, carries a label of the set.
C5_InvalidInputNeverAdvances ==
    /\ [](/\ \A i \in 1..Len(output_data) : output_data[i].label \in Range(labels)
          /\ \A i \in 1..Len(csv.rows) : csv.rows[i].label \in Range(labels))
    /\ [][(lpc = "assign_label" /\ depth' > depth) =>
              (lpc' = lpc /\ idx' = idx /\ output_data' = output_data /\ csv' = csv)]_vars
    /\ [][(lpc = "assign_label" /\ (idx' # idx \/ output_data' # output_data)) =>
              /\ idx' = idx + 1
              /\ \E l \in Range(labels) :
                    output_data' = Append(output_data,
                                          [file_name |-> random_files[idx], label |-> l])]_vars

\* an input was rejected at the second file, after a row was made for the first
C5_Witness ==
    /\ lpc = "assign_label"
    /\ depth > 0
    /\ idx = 2
    /\ Len(output_data) = 1

C8_MissingMetadataIsSkipped == lpc # "crashed"

\* C10: get_labels returns only a label list that is not empty.
C10_LabelSetNotEmpty ==
    lpc \in {"get_length", "no_files", "assign_label", "saved", "crashed"} =>
        Len(labels) > 0

(***************************************************************************)
(* The command line: the __main__ blocks of file_finder.py, labeler.py and *)
(* labeller.py.                                                            *)
(***************************************************************************)
\* the words a command line is made of: a path, a number, a signed number
\* and an option
Tokens == { <<"o">> \o CSV, <<"2">>, <<"+", "2">>, <<"-", "v">> }

Argvs == UNION {[1..n -> Tokens] : n \in 0..MaxArgs}

\* the tables that may exist at the output path before the run; a row
\* without a label has the empty label
Tables ==
    UNION { { [exists |-> TRUE,
               rows |-> [i \in 1..n |-> [file_name |-> i, label |-> cells[i]]]] :
              cells \in [1..n -> {"", "readable"}] } : n \in 0..MaxRows }

\* [opt for opt in sys.argv[1:] if opt.startswith("-")]
OptsOf(a) == SelectSeq(a, LAMBDA w : StartsWith(w, <<"-">>))

\* [arg for arg in sys.argv[1:] if not arg.startswith("-")]
ArgsOf(a) == SelectSeq(a, LAMBDA w : ~StartsWith(w, <<"-">>))

\* the level the options leave the root logger at
LevelOf(script, o) ==
    IF script # "labeller" /\ <<"-", "v", "v">> \in Range(o) THEN "DEBUG"
    ELSE IF <<"-", "v">> \in Range(o) THEN "INFO"
    ELSE "ERROR"

\* int(s) succeeds: digits, with a sign before them or not
IntParsable(s) ==
    \/ IsDigit(s)
    \/ Len(s) >= 2 /\ s[1] \in {"+", "-"} /\ IsDigit(Tail(s))

\* file_finder.py: three arguments, the second and the third numbers
FileFinderBlock(a) ==
    IF Len(a) # 3 THEN [outcome |-> "usage", critical |-> 4]
    ELSE IF ~IsDigit(a[2]) \/ ~IsDigit(a[3]) THEN [outcome |-> "not_int", critical |-> 1]
    ELSE [outcome |-> "main", critical |-> 0]

\* labeler.py with the count of its arguments checked by > instead of !=
LabelerBlockAtMostFive(a) ==
    IF Len(a) > 5 THEN [outcome |-> "usage", critical |-> 4]
    ELSE IF Len(a) < 4 THEN [outcome |-> "IndexError", critical |-> 0]
    ELSE IF ~IsDigit(a[3]) \/ ~IsDigit(a[4]) THEN [outcome |-> "not_int", critical |-> 1]
    ELSE IF Len(a) < 5 THEN [outcome |-> "IndexError", critical |-> 0]
    ELSE [outcome |-> "main", critical |-> 0]

\* labeler.py: five arguments, the third and the fourth numbers
LabelerBlock(a) ==
    IF Len(a) # 5 THEN [outcome |-> "usage", critical |-> 4]
    ELSE IF ~IsDigit(a[3]) \/ ~IsDigit(a[4]) THEN [outcome |-> "not_int", critical |-> 1]
    ELSE [outcome |-> "main", critical |-> 0]

\* labeller.py: four arguments; a third that is not a number is logged, and
\* main(..., sample_size=int(args[2]), ...) is evaluated all the same
LabellerBlock(a) ==
    IF Len(a) # 4 THEN [outcome |-> "usage", critical |-> 4]
    ELSE [outcome |-> IF IntParsable(a[3]) THEN "main" ELSE "ValueError",
          critical |-> IF IsDigit(a[3]) THEN 0 ELSE 1]

CliInit ==
    /\ entry \in {"file_finder", "labeler", "labeller"}
    /\ argv \in Argvs
    /\ cpc = "start"
    /\ opts = <<>>
    /\ args = <<>>
    /\ log_level = "ERROR"
    /\ critical = 0
    /\ outcome = "none"
    /\ FinderIdle
    /\ lpc = "not_started"
    /\ dir_is_dir = FALSE
    /\ output_file = <<>>
    /\ sample_size = 0
    /\ meta_state = <<>>
    /\ n_labels = 0
    /\ labels = <<>>
    /\ files = <<>>
    /\ random_files = <<>>
    /\ idx = 0
    /\ output_data = <<>>
    /\ csv \in {NoFile} \cup Tables
    /\ depth = 0
    /\ exit_at = 0

\* the options and the arguments are told apart and the log level is set
ParseArgv ==
    /\ cpc = "start"
    /\ opts' = OptsOf(argv)
    /\ args' = ArgsOf(argv)
    /\ log_level' = LevelOf(entry, opts')
    /\ cpc' = "parsed"
    /\ UNCHANGED <<entry, argv, critical, outcome>>
    /\ UNCHANGED <<fvars, lvars>>

\* the arguments are checked; main is called, or the block ends
CheckArgs ==
    /\ cpc = "parsed"
    /\ LET end == CASE entry = "file_finder" -> FileFinderBlock(args)
                     [] entry = "labeler" -> LabelerBlock(args)
                     [] entry = "labeller" -> LabellerBlock(args)
       IN  /\ outcome' = end.outcome
           /\ critical' = end.critical
           /\ IF entry = "labeler" /\ end.outcome = "main"
              THEN /\ lpc' = "main"
                   /\ output_file' = args[2]
                   /\ sample_size' = ToInt(args[3])
              ELSE UNCHANGED <<lpc, output_file, sample_size>>
    /\ cpc' = "done"
    /\ UNCHANGED <<entry, argv, opts, args, log_level>>
    /\ UNCHANGED <<dir_is_dir, meta_state, n_labels, labels, files, random_files, idx,
                   output_data, csv, depth, exit_at>>
    /\ UNCHANGED fvars

CliNext ==
    \/ ParseArgv
    \/ CheckArgs

SpecCli == CliInit /\ [][CliNext]_vars

(***************************************************************************)
(* Claims about the command line, checked under SpecCli.                   *)
(***************************************************************************)
\* the rows of a table that have no label
Unlabeled(table) == {i \in 1..Len(table.rows) : table.rows[i].label = ""}

ArgCount(script) ==
    CASE script = "file_finder" -> 3
      [] script = "labeler" -> 5
      [] script = "labeller" -> 4

\* the positions of the arguments that must be numbers
NumericArgs(script) ==
    CASE script = "file_finder" -> {2, 3}
      [] script = "labeler" -> {3, 4}
      [] script = "labeller" -> {3}

\* a wrong number of arguments, or a numeric argument that is not a number
Malformed(script, a) ==
    \/ Len(a) # ArgCount(script)
    \/ \E i \in NumericArgs(script) : ~IsDigit(a[i])

\* C9: at every entry point a malformed command line ends the run with a
\* logged message and a clean return: main is not entered, no exception.
C9_MalformedCommandLineReturnsCleanly ==
    (cpc = "done" /\ Malformed(entry, args)) =>
        /\ outcome \in {"usage", "not_int"}
        /\ critical > 0
        /\ lpc = "not_started"

====
